---- MODULE Spec2Model ----
(***************************************************************************)
(* Model of the EcoFlow API tool (src/ecoflow.py): the canonicalizer       *)
(* (_flatten_object, _build_data_string), the signer (_create_signature),  *)
(* the request dispatcher (_make_request) and the caller-facing            *)
(* get_ecoflow_device_info.                                                *)
(*                                                                         *)
(* A Python str is a sequence of pieces of text.  Keys, values, credentials *)
(* and nonces are spelled one character per piece, so that concatenation   *)
(* and the codepoint order of sorted() are computed, not assumed; a        *)
(* literal of the source is one piece.                                     *)
(***************************************************************************)
EXTENDS Integers, Sequences, FiniteSets, TLC

(***************************************************************************)
(* Python values                                                           *)
(***************************************************************************)
\* A JSON-like Python value is a record [t, v]: t is the Python type,
\* v the content.  A dict keeps its items in insertion order, as Python does.
IntV(n) == [t |-> "int", v |-> n]
StrV(s) == [t |-> "str", v |-> s]
BoolV(b) == [t |-> "bool", v |-> b]
ListV(items) == [t |-> "list", v |-> items]
DictV(items) == [t |-> "dict", v |-> items]

\* payload=None, the default of _create_signature and _make_request
NoneV == [t |-> "none", v |-> 0]

IsDict(x) == x.t = "dict"
IsList(x) == x.t = "list"
IsScalar(x) == x.t \in {"int", "str", "bool"}

\* Python truthiness (`not data`, `payload or {}`, `not self.access_key`)
Truthy(x) ==
    CASE x.t = "none" -> FALSE
      [] x.t = "int" -> x.v # 0
      [] x.t = "bool" -> x.v
      [] OTHER -> x.v # <<>>

(***************************************************************************)
(* Text                                                                    *)
(***************************************************************************)
\* Codepoints of the characters that occur in keys.
Code ==
    [c \in {".", "0", "1", "2", "3", "4", "5", "6", "7", "8", "9", "[", "]", "a", "b"} |->
        CASE c = "." -> 46
          [] c = "0" -> 48 [] c = "1" -> 49 [] c = "2" -> 50 [] c = "3" -> 51
          [] c = "4" -> 52 [] c = "5" -> 53 [] c = "6" -> 54 [] c = "7" -> 55
          [] c = "8" -> 56 [] c = "9" -> 57
          [] c = "[" -> 91 [] c = "]" -> 93
          [] c = "a" -> 97 [] c = "b" -> 98]

Digit == [d \in 0..9 |-> CASE d = 0 -> "0" [] d = 1 -> "1" [] d = 2 -> "2" [] d = 3 -> "3"
                           [] d = 4 -> "4" [] d = 5 -> "5" [] d = 6 -> "6" [] d = 7 -> "7"
                           [] d = 8 -> "8" [] d = 9 -> "9"]

\* str(n) of a non-negative int: its decimal digits
RECURSIVE DecStr(_)
DecStr(n) == IF n < 10 THEN <<Digit[n]>> ELSE DecStr(n \div 10) \o <<Digit[n % 10]>>

\* s < t in the order sorted() uses on str: lexicographic by codepoint
RECURSIVE LexLess(_, _)
LexLess(s, t) ==
    IF t = <<>> THEN FALSE
    ELSE IF s = <<>> THEN TRUE
    ELSE IF Code[Head(s)] # Code[Head(t)] THEN Code[Head(s)] < Code[Head(t)]
    ELSE LexLess(Tail(s), Tail(t))

\* sorted(keys): the keys of a set, ascending
RECURSIVE Sorted(_)
Sorted(S) ==
    IF S = {} THEN <<>>
    ELSE LET m == CHOOSE x \in S : \A y \in S \ {x} : LexLess(x, y)
         IN <<m>> \o Sorted(S \ {m})

\* sep.join(parts)
RECURSIVE Join(_, _)
Join(sep, parts) ==
    IF parts = <<>> THEN <<>>
    ELSE IF Len(parts) = 1 THEN parts[1]
    ELSE parts[1] \o sep \o Join(sep, Tail(parts))

\* repr(x), as str() of a list or dict renders its elements
RECURSIVE Repr(_)
ReprItems(items) == [i \in 1..Len(items) |-> Repr(items[i])]
ReprPairs(items) ==
    [i \in 1..Len(items) |->
        <<"'">> \o items[i][1] \o <<"'", ":", " ">> \o Repr(items[i][2])]
Repr(x) ==
    CASE x.t = "int" -> DecStr(x.v)
      [] x.t = "bool" -> IF x.v THEN <<"T", "r", "u", "e">> ELSE <<"F", "a", "l", "s", "e">>
      [] x.t = "str" -> <<"'">> \o x.v \o <<"'">>
      [] x.t = "none" -> <<"N", "o", "n", "e">>
      [] x.t = "list" -> <<"[">> \o Join(<<",", " ">>, ReprItems(x.v)) \o <<"]">>
      [] x.t = "dict" -> <<"{">> \o Join(<<",", " ">>, ReprPairs(x.v)) \o <<"}">>

\* str(x), the conversion of f"{key}={flattened[key]}"
Str(x) == IF x.t = "str" THEN x.v ELSE Repr(x)

(***************************************************************************)
(* Canonicalizer                                                           *)
(***************************************************************************)
\* dict.update(other) and flattened[k] = v on a mapping (a function from keys)
Update(m, other) ==
    [k \in DOMAIN m \cup DOMAIN other |-> IF k \in DOMAIN other THEN other[k] ELSE m[k]]

EmptyMap == [k \in {} |-> 0]
Single(k, val) == [x \in {k} |-> val]

\* f"{prop_name}[{i}]", i counted from 0 as enumerate() does
IndexName(prop_name, i) == prop_name \o <<"[">> \o DecStr(i) \o <<"]">>

\* f"{parent_key}.{key}" if parent_key else key
PropName(parent_key, key) ==
    IF parent_key # <<>> THEN parent_key \o <<".">> \o key ELSE key

\* Tools._flatten_object: FlattenItems is the loop over obj.items() and
\* FlattenList the loop over enumerate(value), each with the mapping
\* accumulated so far
RECURSIVE FlattenItems(_, _, _)
RECURSIVE FlattenList(_, _, _, _)
FlattenList(value, prop_name, i, flattened) ==
    IF i > Len(value) THEN flattened
    ELSE LET item == value[i]
             name == IndexName(prop_name, i - 1)
         IN FlattenList(value, prop_name, i + 1,
                IF IsDict(item)
                THEN Update(flattened, FlattenItems(item.v, name, EmptyMap))
                ELSE Update(flattened, Single(name, item)))

FlattenItems(items, parent_key, flattened) ==
    IF items = <<>> THEN flattened
    ELSE LET value == Head(items)[2]
             prop_name == PropName(parent_key, Head(items)[1])
         IN FlattenItems(Tail(items), parent_key,
                CASE IsDict(value) -> Update(flattened, FlattenItems(value.v, prop_name, EmptyMap))
                  [] IsList(value) -> FlattenList(value.v, prop_name, 1, flattened)
                  [] OTHER -> Update(flattened, Single(prop_name, value)))

FlattenObject(obj, parent_key) == FlattenItems(obj.v, parent_key, EmptyMap)

\* parts = [f"{key}={flattened[key]}" for key in sorted_keys]
Parts(flattened, sorted_keys) ==
    [i \in 1..Len(sorted_keys) |-> sorted_keys[i] \o <<"=">> \o Str(flattened[sorted_keys[i]])]

\* Tools._build_data_string
BuildDataString(data) ==
    IF ~Truthy(data) THEN <<>>
    ELSE LET flattened == FlattenObject(data, <<>>)
             sorted_keys == Sorted(DOMAIN flattened)
         IN Join(<<"&">>, Parts(flattened, sorted_keys))

(***************************************************************************)
(* Inputs of the canonicalizer                                             *)
(***************************************************************************)
\* Payloads are all JSON-like values of at most MaxNodes nodes (a node is a
\* scalar, a list or a dict) over these keys and scalars.
MaxNodes == 4

Keys == {<<"a">>, <<"b">>, <<"a", ".", "b">>}
Scalars == {IntV(1), IntV(2), BoolV(TRUE)}

\* sequences of n distinct keys
KeySeqs(n) == {s \in [1..n -> Keys] : \A i, j \in 1..n : s[i] = s[j] => i = j}

RECURSIVE Trees(_)
RECURSIVE Forests(_)
\* sequences of values with n nodes in all
Forests(n) ==
    IF n = 0 THEN {<<>>}
    ELSE UNION {{<<t>> \o f : t \in Trees(k), f \in Forests(n - k)} : k \in 1..n}

\* values with exactly n nodes
Trees(n) ==
    IF n = 1 THEN Scalars \cup {ListV(<<>>), DictV(<<>>)}
    ELSE {ListV(f) : f \in Forests(n - 1)}
         \cup UNION {{DictV([i \in 1..Len(f) |-> <<ks[i], f[i]>>]) : ks \in KeySeqs(Len(f))}
                     : f \in {g \in Forests(n - 1) : Len(g) <= Cardinality(Keys)}}

\* the dicts of at most n nodes
Payloads(n) == {x \in UNION {Trees(k) : k \in 1..n} : IsDict(x)}

\* all sequences s of length Len(sets) with s[i] \in sets[i]
RECURSIVE SeqProduct(_)
SeqProduct(sets) ==
    IF sets = <<>> THEN {<<>>}
    ELSE {<<h>> \o r : h \in Head(sets), r \in SeqProduct(Tail(sets))}

Perms(n) == {p \in [1..n -> 1..n] : \A i, j \in 1..n : p[i] = p[j] => i = j}

\* the values structurally identical to x: the same keys and values at every
\* level, the items of each dict listed in any order
RECURSIVE Reorderings(_)
Reorderings(x) ==
    CASE IsList(x) ->
            {ListV(s) : s \in SeqProduct([i \in 1..Len(x.v) |-> Reorderings(x.v[i])])}
      [] IsDict(x) ->
            {DictV([i \in 1..Len(x.v) |-> <<x.v[p[i]][1], s[p[i]]>>]) :
                p \in Perms(Len(x.v)),
                s \in SeqProduct([i \in 1..Len(x.v) |-> Reorderings(x.v[i][2])])}
      [] OTHER -> {x}

(***************************************************************************)
(* Signer                                                                  *)
(***************************************************************************)
\* hmac.new(key, msg, hashlib.sha256).hexdigest(): the digest is kept as the
\* pair it is the keyed hash of, two digests being equal exactly when key
\* and message are
Hmac(key, msg) == [alg |-> "HMAC-SHA256", key |-> key, msg |-> msg]

\* str(int(datetime.now().timestamp() * 1000)), the clock counted in ms
Timestamp(clock) == DecStr(clock)

\* payload or {}
PayloadOrEmpty(payload) == IF Truthy(payload) THEN payload ELSE DictV(<<>>)

SignStringAlwaysJoined(data_string, access_key, nonce, timestamp) ==
    data_string \o <<"&accessKey=">> \o access_key \o <<"&nonce=">> \o nonce
        \o <<"&timestamp=">> \o timestamp

\* the sign_string of Tools._create_signature
SignString(data_string, access_key, nonce, timestamp) ==
    IF data_string # <<>>
    THEN data_string \o <<"&accessKey=">> \o access_key \o <<"&nonce=">> \o nonce
             \o <<"&timestamp=">> \o timestamp
    ELSE <<"accessKey=">> \o access_key \o <<"&nonce=">> \o nonce
             \o <<"&timestamp=">> \o timestamp

\* Tools._create_signature, given the values it reads from the clock, the
\* random source and the valves; the string it signs is kept beside the
\* returned fields
CreateSignature(payload, access_key, secret_key, clock, uuid) ==
    LET timestamp == Timestamp(clock)
        nonce == uuid
        sign_string == SignString(BuildDataString(PayloadOrEmpty(payload)),
                                  access_key, nonce, timestamp)
    IN [accessKey |-> access_key,
        timestamp |-> timestamp,
        nonce |-> nonce,
        sign |-> Hmac(secret_key, sign_string),
        sign_string |-> sign_string]

(***************************************************************************)
(* Request dispatcher                                                      *)
(***************************************************************************)
\* {"error": message}
ErrorResult(message) == DictV(<< <<(<<"error">>), StrV(message)>> >>)

\* key in d, d[key]
HasKey(d, key) == \E i \in 1..Len(d.v) : d.v[i][1] = key
Get(d, key) == d.v[CHOOSE i \in 1..Len(d.v) : d.v[i][1] = key][2]

ConfigError ==
    ErrorResult(<<"EcoFlow API credentials not configured. Please set ECOFLOW_ACCESS_KEY and ECOFLOW_SECRET_KEY in the tool's Valves settings.">>)

CredentialsMissingBoth(access_key, secret_key) == access_key = <<>> /\ secret_key = <<>>

\* not self.access_key or not self.secret_key
CredentialsMissing(access_key, secret_key) == access_key = <<>> \/ secret_key = <<>>

\* the headers dict of Tools._make_request
Headers(auth_params) ==
    [accessKey |-> auth_params.accessKey,
     timestamp |-> auth_params.timestamp,
     nonce |-> auth_params.nonce,
     sign |-> auth_params.sign,
     ContentType |-> "application/json;charset=UTF-8"]

VerbElsePost(method) ==
    CASE method = <<"GET">> -> "get"
      [] method = <<"PUT">> -> "put"
      [] OTHER -> "post"

\* the branch of the if/elif chain: which of requests.get, requests.put and
\* requests.post the method selects, or none
Verb(method) ==
    CASE method = <<"GET">> -> "get"
      [] method = <<"PUT">> -> "put"
      [] method = <<"POST">> -> "post"
      [] OTHER -> "none"

\* a JSON document on the wire and what is not one
JsonBody(doc) == [json |-> TRUE, doc |-> doc]
NoBody == [json |-> FALSE, doc |-> NoneV]
Malformed == [json |-> FALSE, doc |-> StrV(<<"<html>">>)]

RequestBodyAlways(verb, payload) == JsonBody(payload)

\* the body requests sends: none for requests.get, and json=payload for
\* requests.put and requests.post, which is no body when payload is None
RequestBody(verb, payload) ==
    IF verb = "get" \/ payload = NoneV THEN NoBody ELSE JsonBody(payload)

\* what one invocation of requests.get/put/post comes back with: an exception
\* of the transport, or a response
NoException == [type |-> "none", message |-> <<>>]
TransportFailure(type, message) ==
    [exc |-> [type |-> type, message |-> message], status |-> 0, body |-> NoBody]
Response(status, body) == [exc |-> NoException, status |-> status, body |-> body]

\* response.raise_for_status(): HTTPError for a 4xx or 5xx status
RaiseForStatus(status) ==
    IF 400 <= status /\ status < 500
    THEN [type |-> "HTTPError", message |-> DecStr(status) \o <<" Client Error">>]
    ELSE IF 500 <= status /\ status < 600
    THEN [type |-> "HTTPError", message |-> DecStr(status) \o <<" Server Error">>]
    ELSE NoException

\* response.json(): the parsed document, or JSONDecodeError
JsonRaises(body) ==
    IF body.json THEN NoException
    ELSE [type |-> "JSONDecodeError", message |-> <<"Expecting value">>]

\* isinstance(e, requests.RequestException), for the exceptions of requests
IsRequestException(type) ==
    type \in {"ConnectionError", "Timeout", "HTTPError", "JSONDecodeError"}

\* the exception raised in the try block of Tools._make_request after the
\* transport came back with outcome, or none
Raised(outcome) ==
    IF outcome.exc.type # "none" THEN outcome.exc
    ELSE IF RaiseForStatus(outcome.status).type # "none" THEN RaiseForStatus(outcome.status)
    ELSE JsonRaises(outcome.body)

\* {"error": f"API request failed: {str(e)}"}
RequestFailed(e) == ErrorResult(<<"API request failed: ">> \o e.message)

\* {"error": f"Unsupported HTTP method: {method}"}
Unsupported(method) == ErrorResult(<<"Unsupported HTTP method: ">> \o method)

(***************************************************************************)
(* get_ecoflow_device_info                                                 *)
(***************************************************************************)
SerialMissingNever(serial_number) == FALSE

\* not serial_number
SerialMissing(serial_number) == serial_number = <<>>

SerialRequired ==
    <<"Error: Serial number is required. Use list_ecoflow_devices to get device serial numbers.">>

\* f"{self.api_host}/iot-open/sign/device/quota/all?sn={serial_number}"
QuotaUrl(api_host, serial_number) ==
    api_host \o <<"/iot-open/sign/device/quota/all?sn=">> \o serial_number

Indent(level) == [i \in 1..level |-> "  "]

\* json.dumps(x, indent=2)
RECURSIVE JsonDumps(_, _)
JsonDumps(x, level) ==
    CASE x.t = "int" -> DecStr(x.v)
      [] x.t = "bool" -> IF x.v THEN <<"true">> ELSE <<"false">>
      [] x.t = "str" -> <<"\"">> \o x.v \o <<"\"">>
      [] x.t = "none" -> <<"null">>
      [] x.t = "list" ->
            IF x.v = <<>> THEN <<"[]">>
            ELSE <<"[", "\n">>
                 \o Join(<<",", "\n">>,
                         [i \in 1..Len(x.v) |-> Indent(level + 1) \o JsonDumps(x.v[i], level + 1)])
                 \o <<"\n">> \o Indent(level) \o <<"]">>
      [] x.t = "dict" ->
            IF x.v = <<>> THEN <<"{}">>
            ELSE <<"{", "\n">>
                 \o Join(<<",", "\n">>,
                         [i \in 1..Len(x.v) |->
                             Indent(level + 1) \o <<"\"">> \o x.v[i][1] \o <<"\"", ": ">>
                                 \o JsonDumps(x.v[i][2], level + 1)])
                 \o <<"\n">> \o Indent(level) \o <<"}">>

\* for key, value in sorted(data.items()): output += f"  {key}: {value}\n"
RECURSIVE InfoLines(_, _)
InfoLines(d, keys) ==
    IF keys = <<>> THEN <<>>
    ELSE <<"  ">> \o Head(keys) \o <<": ">> \o Str(Get(d, Head(keys))) \o <<"\n">>
             \o InfoLines(d, Tail(keys))

\* what get_ecoflow_device_info makes of the result of _make_request
FormatDeviceInfo(result, serial_number) ==
    IF HasKey(result, <<"error">>) THEN Get(result, <<"error">>).v
    ELSE IF HasKey(result, <<"data">>)
    THEN LET d == Get(result, <<"data">>)
         IN IF ~Truthy(d)
            THEN <<"No data available for device ">> \o serial_number
                     \o <<". The device may be offline or not supported.">>
            ELSE <<"Device Information for ">> \o serial_number \o <<":\n\n">>
                     \o InfoLines(d, Sorted({d.v[i][1] : i \in 1..Len(d.v)}))
    ELSE <<"Unexpected response format: ">> \o JsonDumps(result, 0)

(***************************************************************************)
(* Inputs of the dispatcher and answers of the remote endpoint             *)
(***************************************************************************)
NumCalls == 2       \* calls the host may have in progress at once
MaxClock == 1       \* ticks of the clock

Procs == 1..NumCalls

DefaultHost == <<"https://api.ecoflow.com">>

\* the valves as the host may have set them, the defaults among them
ValveSettings ==
    [ECOFLOW_API_HOST : {DefaultHost},
     ECOFLOW_ACCESS_KEY : {<<>>, <<"A", "K">>},
     ECOFLOW_SECRET_KEY : {<<>>, <<"S", "K">>}]

Methods == {<<"GET">>, <<"PUT">>, <<"POST">>, <<"DELETE">>, <<"get">>}
Urls == {DefaultHost \o <<"/iot-open/sign/device/list">>}
Serials == {<<>>, <<"S", "N", "1">>}
Uuids == {<<"u", "1">>, <<"u", "2">>}

\* None, {}, {"a": [], "b": {}}, {"a": [[]]}, {"b": 2, "a": 1}
RequestPayloads ==
    {NoneV,
     DictV(<<>>),
     DictV(<< <<(<<"a">>), ListV(<<>>)>>, <<(<<"b">>), DictV(<<>>)>> >>),
     DictV(<< <<(<<"a">>), ListV(<<ListV(<<>>)>>)>> >>),
     DictV(<< <<(<<"b">>), IntV(2)>>, <<(<<"a">>), IntV(1)>> >>)}

\* {"data": {"b": 2, "a": 1}}, {"data": {}}, {"a": 1}
Docs ==
    {DictV(<< <<(<<"data">>), DictV(<< <<(<<"b">>), IntV(2)>>, <<(<<"a">>), IntV(1)>> >>)>> >>),
     DictV(<< <<(<<"data">>), DictV(<<>>)>> >>),
     DictV(<< <<(<<"a">>), IntV(1)>> >>)}

Statuses == {200, 300, 404, 500}

\* DNS failure, refused connection, timeout; or a response of any status
\* whose body is a JSON document, not one, or empty
Outcomes ==
    {TransportFailure("ConnectionError", <<"Name or service not known">>),
     TransportFailure("ConnectionError", <<"Connection refused">>),
     TransportFailure("Timeout", <<"Read timed out.">>)}
    \cup {Response(st, b) : st \in Statuses, b \in {JsonBody(d) : d \in Docs} \cup {Malformed, NoBody}}

\* the inputs and answers of the calls made concurrently
ConcMethods == {<<"POST">>}
ConcPayloads == {DictV(<< <<(<<"b">>), IntV(2)>>, <<(<<"a">>), IntV(1)>> >>)}
ConcOutcomes ==
    {Response(200, JsonBody(DictV(<< <<(<<"data">>), DictV(<<>>)>> >>))),
     Response(500, Malformed)}

(***************************************************************************)
(* State                                                                   *)
(***************************************************************************)
VARIABLES
    data,           \* the payload given to the canonicalizer
    same,           \* a payload structurally identical to data
    flattened,      \* the result of _flatten_object(data)
    data_string,    \* the result of _build_data_string(data)
    same_string,    \* the result of _build_data_string(same)
    cpc,            \* "input", then "flattened" or "built"
    valves,         \* Tools.valves
    now,            \* the system clock, in ms
    call            \* the frame of each call of the host in progress

cvars == <<data, same, flattened, data_string, same_string, cpc>>
dvars == <<valves, now, call>>

vars == <<data, same, flattened, data_string, same_string, cpc, valves, now, call>>

NoAuth == CreateSignature(NoneV, <<>>, <<>>, 0, <<>>)
NoRequest == [verb |-> "none", url |-> <<>>, headers |-> Headers(NoAuth), body |-> NoBody]
NoOutcome == Response(0, NoBody)

\* A frame: where the call is (pc), which operation the host called (op), its
\* arguments, the locals of _make_request (auth_params, the request handed to
\* requests, what came back, the result or the exception that escapes), the
\* text get_ecoflow_device_info returns, and the number of times the call
\* has entered _make_request and _create_signature and invoked requests.
Idle ==
    [pc |-> "idle", op |-> "none",
     method |-> <<>>, url |-> <<>>, payload |-> NoneV, serial_number |-> <<>>,
     auth_params |-> NoAuth, request |-> NoRequest, outcome |-> NoOutcome,
     result |-> NoneV, escaped |-> NoException, output |-> <<>>,
     made |-> 0, signs |-> 0, sent |-> 0]

(***************************************************************************)
(* The canonicalizer applied to every payload                              *)
(***************************************************************************)
InitCanon ==
    /\ data \in Payloads(MaxNodes)
    /\ same = data
    /\ flattened = EmptyMap
    /\ data_string = <<>>
    /\ same_string = <<>>
    /\ cpc = "input"
    /\ valves \in [ECOFLOW_API_HOST : {DefaultHost}, ECOFLOW_ACCESS_KEY : {<<>>},
                   ECOFLOW_SECRET_KEY : {<<>>}]
    /\ now = 1
    /\ call = [p \in Procs |-> Idle]

\* flattened = self._flatten_object(data)
CallFlatten ==
    /\ cpc = "input"
    /\ flattened' = FlattenObject(data, <<>>)
    /\ cpc' = "flattened"
    /\ UNCHANGED <<data, same, data_string, same_string, dvars>>

\* self._build_data_string(data), and again on a structurally identical payload
CallBuild ==
    /\ cpc = "input"
    /\ \E other \in Reorderings(data) :
        /\ same' = other
        /\ same_string' = BuildDataString(other)
    /\ data_string' = BuildDataString(data)
    /\ cpc' = "built"
    /\ UNCHANGED <<data, flattened, dvars>>

NextCanon == CallFlatten \/ CallBuild

SpecCanon == InitCanon /\ [][NextCanon]_vars

(***************************************************************************)
(* Calls of the host                                                       *)
(***************************************************************************)
\* The host calls _make_request(method, url, payload).
StartRequest(p, methods, payloads) ==
    /\ call[p].pc = "idle"
    /\ \E method \in methods, url \in Urls, payload \in payloads :
        call' = [call EXCEPT ![p] =
                    [Idle EXCEPT !.pc = "check", !.op = "make_request", !.method = method,
                                 !.url = url, !.payload = payload, !.made = 1]]
    /\ UNCHANGED <<cvars, valves, now>>

\* The host calls get_ecoflow_device_info(serial_number): the check of the
\* serial number, then result = self._make_request("GET", url).
GetDeviceInfo(p) ==
    /\ call[p].pc = "idle"
    /\ \E serial_number \in Serials :
        call' = [call EXCEPT ![p] =
                    IF SerialMissing(serial_number)
                    THEN [Idle EXCEPT !.pc = "done", !.op = "device_info",
                                      !.serial_number = serial_number,
                                      !.output = SerialRequired]
                    ELSE [Idle EXCEPT !.pc = "check", !.op = "device_info",
                                      !.serial_number = serial_number,
                                      !.method = <<"GET">>,
                                      !.url = QuotaUrl(valves.ECOFLOW_API_HOST, serial_number),
                                      !.payload = NoneV, !.made = 1]]
    /\ UNCHANGED <<cvars, valves, now>>

\* where a call goes on when _make_request has returned
AfterRequest(frame) == IF frame.op = "device_info" THEN "format" ELSE "done"

\* _make_request: if not self.access_key or not self.secret_key: return {...}
CheckCredentials(p) ==
    /\ call[p].pc = "check"
    /\ LET frame == call[p]
       IN call' = [call EXCEPT ![p] =
                     IF CredentialsMissing(valves.ECOFLOW_ACCESS_KEY, valves.ECOFLOW_SECRET_KEY)
                     THEN [frame EXCEPT !.result = ConfigError, !.pc = AfterRequest(frame)]
                     ELSE [frame EXCEPT !.pc = "sign"]]
    /\ UNCHANGED <<cvars, valves, now>>

\* _make_request: auth_params = self._create_signature(payload)
Sign(p) ==
    /\ call[p].pc = "sign"
    /\ \E uuid \in Uuids :
        LET frame == call[p]
        IN call' = [call EXCEPT ![p] =
                      [frame EXCEPT !.auth_params =
                                        CreateSignature(frame.payload, valves.ECOFLOW_ACCESS_KEY,
                                                        valves.ECOFLOW_SECRET_KEY, now, uuid),
                                    !.signs = frame.signs + 1,
                                    !.pc = "dispatch"]]
    /\ UNCHANGED <<cvars, valves, now>>

AuthParamsOfFirstCall(p) == call[1].auth_params

\* the auth_params local of the _make_request of call p
AuthParamsOf(p) == call[p].auth_params

\* _make_request: the headers, then the if/elif chain that hands the request
\* to requests.get, requests.put or requests.post, or returns the error of an
\* unsupported method
Dispatch(p) ==
    /\ call[p].pc = "dispatch"
    /\ LET frame == call[p]
           verb == Verb(frame.method)
       IN call' = [call EXCEPT ![p] =
                     IF verb = "none"
                     THEN [frame EXCEPT !.result = Unsupported(frame.method),
                                        !.pc = AfterRequest(frame)]
                     ELSE [frame EXCEPT !.request = [verb |-> verb, url |-> frame.url,
                                                     headers |-> Headers(AuthParamsOf(p)),
                                                     body |-> RequestBody(verb, frame.payload)],
                                        !.sent = frame.sent + 1,
                                        !.pc = "wait"]]
    /\ UNCHANGED <<cvars, valves, now>>

\* requests.get/put/post comes back: with an exception, or with the response
\* of the remote endpoint
Transport(p, outcomes) ==
    /\ call[p].pc = "wait"
    /\ \E outcome \in outcomes :
        call' = [call EXCEPT ![p] = [call[p] EXCEPT !.outcome = outcome, !.pc = "received"]]
    /\ UNCHANGED <<cvars, valves, now>>

\* _make_request: response.raise_for_status(); return response.json(), and
\* except requests.RequestException as e: return {"error": ...}
Complete(p) ==
    /\ call[p].pc = "received"
    /\ LET frame == call[p]
           e == Raised(frame.outcome)
       IN call' = [call EXCEPT ![p] =
                     IF e.type = "none"
                     THEN [frame EXCEPT !.result = frame.outcome.body.doc,
                                        !.pc = AfterRequest(frame)]
                     ELSE IF IsRequestException(e.type)
                     THEN [frame EXCEPT !.result = RequestFailed(e), !.pc = AfterRequest(frame)]
                     ELSE [frame EXCEPT !.escaped = e, !.pc = "done"]]
    /\ UNCHANGED <<cvars, valves, now>>

\* get_ecoflow_device_info: the text made of the result
Format(p) ==
    /\ call[p].pc = "format"
    /\ LET frame == call[p]
       IN call' = [call EXCEPT ![p] =
                     [frame EXCEPT !.output = FormatDeviceInfo(frame.result, frame.serial_number),
                                   !.pc = "done"]]
    /\ UNCHANGED <<cvars, valves, now>>

\* The call has returned to the host, which may call again.
Return(p) ==
    /\ call[p].pc = "done"
    /\ call' = [call EXCEPT ![p] = Idle]
    /\ UNCHANGED <<cvars, valves, now>>

\* The system clock advances.
Tick ==
    /\ now <= MaxClock
    /\ now' = now + 1
    /\ UNCHANGED <<cvars, valves, call>>

InitDispatch ==
    /\ data = DictV(<<>>)
    /\ same = data
    /\ flattened = EmptyMap
    /\ data_string = <<>>
    /\ same_string = <<>>
    /\ cpc = "input"
    /\ valves \in ValveSettings
    /\ now = 1
    /\ call = [p \in Procs |-> Idle]

\* One call at a time, with any method, payload and answer.
Next ==
    \/ StartRequest(1, Methods, RequestPayloads)
    \/ GetDeviceInfo(1)
    \/ CheckCredentials(1)
    \/ Sign(1)
    \/ Dispatch(1)
    \/ Transport(1, Outcomes)
    \/ Complete(1)
    \/ Format(1)
    \/ Return(1)
    \/ Tick

Spec == InitDispatch /\ [][Next]_vars

\* NumCalls calls in progress at once, interleaved in every way.
NextConc ==
    \/ \E p \in Procs :
        \/ StartRequest(p, ConcMethods, ConcPayloads)
        \/ CheckCredentials(p)
        \/ Sign(p)
        \/ Dispatch(p)
        \/ Transport(p, ConcOutcomes)
        \/ Complete(p)
        \/ Return(p)
    \/ Tick

SpecConc == InitDispatch /\ [][NextConc]_vars

(***************************************************************************)
(* Claims about the canonicalizer                                          *)
(***************************************************************************)
\* The scalar leaves of a value with their paths, as the contract of flatten
\* describes them: a mapping child extends the path by .<childKey> (a root
\* key is unprefixed), a sequence element by [<index>], and every non-scalar
\* is recursed into.
RECURSIVE Leaves(_, _, _)
Leaves(x, path, root) ==
    CASE IsDict(x) ->
            UNION {Leaves(x.v[i][2],
                          IF root THEN x.v[i][1] ELSE path \o <<".">> \o x.v[i][1],
                          FALSE) : i \in 1..Len(x.v)}
      [] IsList(x) ->
            UNION {Leaves(x.v[i], path \o <<"[">> \o DecStr(i - 1) \o <<"]">>, FALSE)
                   : i \in 1..Len(x.v)}
      [] OTHER -> {<<path, x>>}

\* C5: _flatten_object returns a mapping whose every value is a scalar, with
\* an entry for each scalar leaf of the payload under the leaf's path and no
\* other entry; sequences nested in sequences are recursed into, and empty
\* mappings and sequences contribute nothing.
C5_FlattenScalarLeaves ==
    cpc = "flattened" =>
        /\ \A k \in DOMAIN flattened : IsScalar(flattened[k])
        /\ DOMAIN flattened = {l[1] : l \in Leaves(data, <<>>, TRUE)}
        /\ \A k \in DOMAIN flattened : <<k, flattened[k]>> \in Leaves(data, <<>>, TRUE)

\* the pieces of s between the occurrences of the character sep
RECURSIVE Split(_, _, _)
Split(s, sep, piece) ==
    IF s = <<>> THEN <<piece>>
    ELSE IF Head(s) = sep THEN <<piece>> \o Split(Tail(s), sep, <<>>)
    ELSE Split(Tail(s), sep, Append(piece, Head(s)))

\* the key of a key=value pair
RECURSIVE KeyOf(_)
KeyOf(pair) ==
    IF pair = <<>> \/ Head(pair) = "=" THEN <<>> ELSE <<Head(pair)>> \o KeyOf(Tail(pair))

\* the keys of the key=value pairs of a canonical string are in ascending order
KeysAscending(s) ==
    s # <<>> =>
        LET pairs == Split(s, "&", <<>>)
        IN \A i, j \in 1..Len(pairs) : i < j => LexLess(KeyOf(pairs[i]), KeyOf(pairs[j]))

\* C6: _build_data_string gives two structurally identical payloads the same
\* canonical string, whatever the order their keys are listed in, and the
\* key=value pairs are in lexicographic key order.
C6_OrderIndependent ==
    cpc = "built" =>
        /\ data_string = same_string
        /\ KeysAscending(data_string)
        /\ KeysAscending(same_string)

(***************************************************************************)
(* Claims about the dispatcher, the signer and get_ecoflow_device_info     *)
(***************************************************************************)
AccessKey == valves.ECOFLOW_ACCESS_KEY
SecretKey == valves.ECOFLOW_SECRET_KEY

\* both credentials are set
Configured == AccessKey # <<>> /\ SecretKey # <<>>

\* the method is one of GET, PUT and POST
Supported(method) == method \in {<<"GET">>, <<"PUT">>, <<"POST">>}

\* the call has entered _make_request, and _make_request has returned
Entered(frame) == frame.made = 1
Returned(frame) == frame.made = 1 /\ frame.pc \in {"format", "done"}

\* the result is an error descriptor carrying a message
IsError(result) ==
    /\ IsDict(result)
    /\ HasKey(result, <<"error">>)
    /\ Get(result, <<"error">>).v # <<>>

\* text ends with suffix
EndsWith(text, suffix) ==
    /\ Len(text) >= Len(suffix)
    /\ SubSeq(text, Len(text) - Len(suffix) + 1, Len(text)) = suffix

\* C1: whatever the method, url and payload, when the access key or the
\* secret key is empty _make_request returns the configuration error, and at
\* no point of the call is requests.get, put or post invoked.
C1_NoCredentialsNoNetwork ==
    \A p \in Procs :
        (Entered(call[p]) /\ (AccessKey = <<>> \/ SecretKey = <<>>)) =>
            /\ call[p].sent = 0
            /\ call[p].pc \in {"check", "format", "done"}
            /\ Returned(call[p]) =>
                  (IsError(call[p].result) /\ call[p].result = ConfigError)

C1_Witness ==
    \E p \in Procs :
        /\ call[p].op = "make_request" /\ call[p].pc = "done"
        /\ AccessKey # <<>> /\ SecretKey = <<>>
        /\ call[p].method = <<"POST">> /\ Truthy(call[p].payload)
        /\ call[p].result = ConfigError /\ call[p].sent = 0

\* C2: with both credentials set, _make_request called with a method other
\* than GET, PUT and POST returns an error whose message names the method,
\* and invokes none of requests.get, put and post.
C2_UnsupportedMethod ==
    \A p \in Procs :
        (Entered(call[p]) /\ Configured /\ ~Supported(call[p].method)) =>
            /\ call[p].sent = 0
            /\ Returned(call[p]) =>
                  /\ IsError(call[p].result)
                  /\ EndsWith(Get(call[p].result, <<"error">>).v, call[p].method)

C2_Witness ==
    \E p \in Procs :
        /\ call[p].pc = "done" /\ Configured
        /\ call[p].method = <<"DELETE">>
        /\ IsError(call[p].result) /\ call[p].sent = 0 /\ call[p].signs = 1

\* the remote endpoint has answered the call with a status
Answered(frame) == Returned(frame) /\ frame.sent = 1 /\ frame.outcome.exc.type = "none"

\* C3: with credentials set and a supported method, whenever the remote
\* endpoint answers with a status that is not 2xx, _make_request returns an
\* error result, never the response body, having invoked the transport
\* exactly once.
C3_Non2xxIsError ==
    \A p \in Procs :
        (/\ Configured /\ Supported(call[p].method) /\ Answered(call[p])
         /\ ~(200 <= call[p].outcome.status /\ call[p].outcome.status < 300)) =>
            /\ IsError(call[p].result)
            /\ call[p].result # call[p].outcome.body.doc
            /\ call[p].sent = 1

\* the call failed: a credential is missing, the method is not supported, the
\* transport failed, the status is not 2xx or the body is not a JSON document
Failed(frame) ==
    \/ ~Configured
    \/ ~Supported(frame.method)
    \/ /\ frame.sent = 1
       /\ \/ frame.outcome.exc.type # "none"
          \/ ~(200 <= frame.outcome.status /\ frame.outcome.status < 300)
          \/ ~frame.outcome.body.json

\* C4: every failure of a _make_request call (missing credential,
\* unsupported method, non-2xx status, failure of the transport, undecodable
\* response body) ends in an error descriptor carrying a message being
\* returned, and no exception escapes _make_request.
C4_FailuresAreValues ==
    \A p \in Procs :
        /\ call[p].escaped.type = "none"
        /\ (Returned(call[p]) /\ Failed(call[p])) => IsError(call[p].result)

\* the payload is absent, is {}, or contains only empty mappings and sequences
HoldsNothing(payload) ==
    \/ payload = NoneV
    \/ /\ IsDict(payload)
       /\ \A i \in 1..Len(payload.v) :
             (IsDict(payload.v[i][2]) \/ IsList(payload.v[i][2])) /\ payload.v[i][2].v = <<>>

\* C7: the string _create_signature signs is the canonical string, then
\* &accessKey=..&nonce=..&timestamp=.., exactly when the canonical string of
\* the payload is not empty, and accessKey=..&nonce=..&timestamp=.. with no
\* leading & exactly when it is empty, which it is for a payload that is
\* absent, {} or contains only empty mappings and sequences; the three values
\* are those of the returned auth parameters and the signature is the keyed
\* hash of the string under the secret key.
C7_SignString ==
    \A p \in Procs :
        call[p].signs = 1 =>
            LET a == call[p].auth_params
                canonical == BuildDataString(PayloadOrEmpty(call[p].payload))
                rest == a.accessKey \o <<"&nonce=">> \o a.nonce \o <<"&timestamp=">> \o a.timestamp
                joined == canonical \o <<"&accessKey=">> \o rest
                alone == <<"accessKey=">> \o rest
            IN /\ (a.sign_string = joined) <=> (canonical # <<>>)
               /\ (a.sign_string = alone) <=> (canonical = <<>>)
               /\ HoldsNothing(call[p].payload) => (canonical = <<>> /\ a.sign_string = alone)
               /\ a.accessKey = AccessKey
               /\ a.nonce \in Uuids
               /\ a.sign = Hmac(SecretKey, a.sign_string)

C7_Witness ==
    \E p \in Procs :
        /\ call[p].signs = 1
        /\ Truthy(call[p].payload) /\ HoldsNothing(call[p].payload)
        /\ call[p].auth_params.sign_string =
              <<"accessKey=">> \o AccessKey \o <<"&nonce=">> \o call[p].auth_params.nonce
                  \o <<"&timestamp=">> \o call[p].auth_params.timestamp

\* the inputs of a call, and the answer to its own HTTP call
Own(frame) == <<frame.method, frame.url, frame.payload, frame.outcome>>

\* C8 (state): in every interleaving each call's headers carry its own
\* nonce, timestamp and signature, the accessKey header is the access key
\* inside the string the call signed, and two calls with the same method,
\* url, payload and answer return the same result.
C8_OwnState ==
    /\ \A p \in Procs :
          call[p].signs = 1 =>
              LET a == call[p].auth_params
                  canonical == BuildDataString(PayloadOrEmpty(call[p].payload))
                  rest == a.accessKey \o <<"&nonce=">> \o a.nonce
                              \o <<"&timestamp=">> \o a.timestamp
              IN /\ a.sign_string \in {canonical \o <<"&accessKey=">> \o rest,
                                       <<"accessKey=">> \o rest}
                 /\ a.sign = Hmac(SecretKey, a.sign_string)
                 /\ a.timestamp \in {DecStr(t) : t \in 1..now}
                 /\ call[p].sent = 1 =>
                       /\ call[p].request.headers.accessKey = a.accessKey
                       /\ call[p].request.headers.nonce = a.nonce
                       /\ call[p].request.headers.timestamp = a.timestamp
                       /\ call[p].request.headers.sign = a.sign
                       /\ call[p].request.url = call[p].url
    /\ \A p, q \in Procs :
          (Returned(call[p]) /\ Returned(call[q]) /\ Own(call[p]) = Own(call[q])) =>
              call[p].result = call[q].result

\* C8 (step): a step of one call leaves the frames of the other calls and the
\* credentials as they are.
C8_OwnStep ==
    /\ valves' = valves
    /\ \A p \in Procs :
          call'[p] # call[p] => \A q \in Procs \ {p} : call'[q] = call[q]

\* C8: concurrent _make_request calls on one client are independent.
C8_Independent == []C8_OwnState /\ [][C8_OwnStep]_vars

C8_Witness ==
    \E p, q \in Procs :
        /\ p < q
        /\ call[p].pc = "received" /\ call[q].pc = "received"
        /\ call[p].auth_params.nonce # call[q].auth_params.nonce
        /\ call[p].auth_params.timestamp # call[q].auth_params.timestamp
        /\ call[p].outcome # call[q].outcome
        /\ Configured

\* C9: get_ecoflow_device_info called with an empty serial number returns the
\* input-validation error without entering _make_request or
\* _create_signature and without a network call, credentials set or not.
C9_EmptySerialRejected ==
    \A p \in Procs :
        (call[p].op = "device_info" /\ call[p].serial_number = <<>>) =>
            /\ call[p].pc = "done"
            /\ call[p].output = SerialRequired
            /\ call[p].made = 0 /\ call[p].signs = 0 /\ call[p].sent = 0

C9_Witness ==
    \E p \in Procs :
        /\ call[p].op = "device_info" /\ call[p].serial_number = <<>>
        /\ call[p].pc = "done" /\ Configured
        /\ call[p].output = SerialRequired

\* the name of the function of requests that serves a method
Lower(method) ==
    CASE method = <<"GET">> -> "get" [] method = <<"PUT">> -> "put" [] method = <<"POST">> -> "post"

\* C10: with credentials set and a method among GET, PUT and POST,
\* _make_request hands requests exactly one call, of that method, to the
\* given url, with the four auth headers of the one signer invocation of the
\* call and the JSON Content-Type; a GET carries no body, a PUT or POST the
\* payload as its JSON body; and the parsed JSON body of a successful
\* response is returned unchanged.
C10_OneSignedRequest ==
    \A p \in Procs :
        (Entered(call[p]) /\ Configured /\ Supported(call[p].method)) =>
            LET frame == call[p]
                a == frame.auth_params
                r == frame.request
            IN /\ frame.pc \in {"check", "sign", "dispatch"} => frame.sent = 0
               /\ frame.pc \in {"wait", "received", "format", "done"} =>
                     /\ frame.sent = 1 /\ frame.signs = 1
                     /\ r.verb = Lower(frame.method)
                     /\ r.url = frame.url
                     /\ r.headers.accessKey = AccessKey
                     /\ r.headers.timestamp = a.timestamp
                     /\ r.headers.nonce = a.nonce
                     /\ r.headers.sign = a.sign
                     /\ a.sign = Hmac(SecretKey, a.sign_string)
                     /\ a.nonce \in Uuids
                     /\ r.headers.ContentType = "application/json;charset=UTF-8"
                     /\ frame.method = <<"GET">> => r.body = NoBody
                     /\ (frame.method # <<"GET">> /\ frame.payload # NoneV) =>
                           (r.body.json /\ r.body.doc = frame.payload)
               /\ (/\ Returned(frame) /\ frame.outcome.exc.type = "none"
                   /\ 200 <= frame.outcome.status /\ frame.outcome.status < 300
                   /\ frame.outcome.body.json) =>
                     frame.result = frame.outcome.body.doc

C10_Witness ==
    \E p \in Procs :
        /\ call[p].op = "make_request" /\ call[p].pc = "done" /\ Configured
        /\ call[p].method = <<"PUT">> /\ Truthy(call[p].payload)
        /\ call[p].sent = 1
        /\ call[p].request.body = JsonBody(call[p].payload)
        /\ call[p].outcome.status = 200 /\ call[p].outcome.body.json
        /\ call[p].result = call[p].outcome.body.doc

====
